---- MODULE Spec2Model ----
(***************************************************************************)
(* Model of pgx-sqlreader's migration engine (migration.go) and of the     *)
(* Connector entry points that drive it (sqlreader.go).                    *)
(*                                                                         *)
(* The database is the external collaborator: a committed state, at most   *)
(* one open transaction with its working copy, statements that can fail.   *)
(* Every database call of a handler is one step of the call in progress,   *)
(* so the order of the statements and the point of a failure are explicit. *)
(*                                                                         *)
(* Spec      the Connector calls of one caller, one after the other        *)
(* SpecLoad  one LoadMigrations call over a listing of directory entries   *)
(* SpecRace  two Connector.Migrate calls on pool connectors at once        *)
(* SpecStore   New (queries.go) over a listing of a queries directory     *)
(* SpecLookups New, then the lookups by name of GetSQL and the Connector   *)
(***************************************************************************)
EXTENDS Integers, Sequences, FiniteSets, TLC

\* ------------------------------------------------------------------ bounds
MaxCalls == 3      \* Connector calls made in one behaviour
MaxTx == 2         \* transactions begun in one behaviour
MaxExternal == 1   \* changes made to the database by hand in one behaviour

\* ------------------------------------------------------- migration files
\* A directory entry.  parts is the file name without ".sql" split on "_",
\* each part a sequence of characters; sections is the content split on the
\* marker "-- Down", each section a sequence of tokens (" " is white space).
File(isDir, ext, parts, sections) ==
    [isDir |-> isDir, ext |-> ext, parts |-> parts, sections |-> sections]

Good(verChars, nameChar, up, down) ==
    File(FALSE, ".sql", <<verChars, <<nameChar>>>>,
         <<(<<up, " ", " ">>), (<<" ", down, " ">>)>>)

\* 10_c.sql, 1_a.sql, 2_b.sql: enumerated in file-name order, 10 first
DirOrdered ==
    << Good(<<"1", "0">>, "c", "u10", "d10"),
       Good(<<"1">>, "a", "u1", "d1"),
       Good(<<"2">>, "b", "u2", "d2") >>

\* 0_z.sql and a file that is not a migration
DirZero ==
    << Good(<<"0">>, "z", "u0", "d0"),
       File(FALSE, ".txt", <<(<<"r">>)>>, <<(<<"x">>)>>) >>

\* 01_a.sql and 1_b.sql share version 1
DirDup ==
    << Good(<<"0", "1">>, "a", "ua", "da"),
       Good(<<"1">>, "b", "ub", "db") >>

\* 1_a.sql is well formed, 2_b.sql has no "-- Down" marker
DirBad ==
    << Good(<<"1">>, "a", "u1", "d1"),
       File(FALSE, ".sql", <<(<<"2">>), (<<"b">>)>>, <<(<<"u2">>)>>) >>

Dirs == {DirOrdered, DirZero, DirDup, DirBad}

Digits == {"0", "1", "2", "3", "4", "5", "6", "7", "8", "9"}

DigitVal(c) ==
    CASE c = "0" -> 0 [] c = "1" -> 1 [] c = "2" -> 2 [] c = "3" -> 3
      [] c = "4" -> 4 [] c = "5" -> 5 [] c = "6" -> 6 [] c = "7" -> 7
      [] c = "8" -> 8 [] c = "9" -> 9

RECURSIVE DigitRun(_)
\* number of leading decimal digits of s
DigitRun(s) ==
    IF Len(s) = 0 \/ s[1] \notin Digits THEN 0 ELSE 1 + DigitRun(Tail(s))

RECURSIVE DecVal(_, _)
DecVal(s, acc) ==
    IF Len(s) = 0 THEN acc ELSE DecVal(Tail(s), 10 * acc + DigitVal(s[1]))

\* fmt.Sscanf(s, "%d", &version): an optional sign, then at least one digit;
\* whatever follows the digits is left unread and is no error.
Sscanf(s) ==
    LET signed == Len(s) > 0 /\ s[1] \in {"+", "-"}
        rest == IF signed THEN Tail(s) ELSE s
        n == DigitRun(rest)
        mag == DecVal(SubSeq(rest, 1, n), 0)
    IN IF n = 0 THEN [ok |-> FALSE, val |-> 0]
       ELSE [ok |-> TRUE,
             val |-> IF signed /\ s[1] = "-" THEN 0 - mag ELSE mag]

RECURSIVE Join(_)
\* strings.Join(parts, "_")
Join(parts) ==
    IF Len(parts) = 0 THEN <<>>
    ELSE IF Len(parts) = 1 THEN parts[1]
    ELSE parts[1] \o <<"_">> \o Join(Tail(parts))

\* the line feed
NL == "\n"

\* the white space of the texts of the model: blank and line feed
White == {" ", NL}

RECURSIVE TrimLeft(_)
TrimLeft(s) == IF Len(s) > 0 /\ s[1] \in White THEN TrimLeft(Tail(s)) ELSE s

RECURSIVE TrimRight(_)
TrimRight(s) ==
    IF Len(s) > 0 /\ s[Len(s)] \in White THEN TrimRight(SubSeq(s, 1, Len(s) - 1))
    ELSE s

\* strings.TrimSpace
TrimSpace(s) == TrimRight(TrimLeft(s))

\* the zero value of the migration struct
ZeroMigration == [Version |-> 0, Name |-> <<>>, UpSQL |-> <<>>, DownSQL |-> <<>>]

\* a loop that takes what stands around the first marker and lets any
\* further marker pass
ParseFile_AnySections(f) ==
    IF Len(f.parts) < 2 THEN [ok |-> FALSE, mig |-> ZeroMigration]
    ELSE IF ~Sscanf(f.parts[1]).ok THEN [ok |-> FALSE, mig |-> ZeroMigration]
    ELSE IF Len(f.sections) < 2 THEN [ok |-> FALSE, mig |-> ZeroMigration]
    ELSE [ok |-> TRUE,
          mig |-> [Version |-> Sscanf(f.parts[1]).val,
                   Name |-> Join(Tail(f.parts)),
                   UpSQL |-> TrimSpace(f.sections[1]),
                   DownSQL |-> TrimSpace(f.sections[2])]]

\* the body of the loop of LoadMigrations for one entry
ParseFile(f) ==
    IF Len(f.parts) < 2 THEN [ok |-> FALSE, mig |-> ZeroMigration]
    ELSE IF ~Sscanf(f.parts[1]).ok THEN [ok |-> FALSE, mig |-> ZeroMigration]
    ELSE IF Len(f.sections) # 2 THEN [ok |-> FALSE, mig |-> ZeroMigration]
    ELSE [ok |-> TRUE,
          mig |-> [Version |-> Sscanf(f.parts[1]).val,
                   Name |-> Join(Tail(f.parts)),
                   UpSQL |-> TrimSpace(f.sections[1]),
                   DownSQL |-> TrimSpace(f.sections[2])]]

IsMigrationFile(f) == ~f.isDir /\ f.ext = ".sql"

RECURSIVE Collect(_)
\* the migrations appended in enumeration order, entries that are not
\* migration files skipped
Collect(d) ==
    IF Len(d) = 0 THEN <<>>
    ELSE IF IsMigrationFile(d[1]) THEN <<ParseFile(d[1]).mig>> \o Collect(Tail(d))
    ELSE Collect(Tail(d))

\* a LoadMigrations that returns no error for a malformed file
LoadFails_Never(d) == FALSE

LoadFails(d) ==
    \E i \in 1..Len(d) : IsMigrationFile(d[i]) /\ ~ParseFile(d[i]).ok

\* a LoadMigrations that returns the migrations as it read them
SortedBy_AsRead(s) == {s}

\* sort.Slice by Version: not stable, so any arrangement of the appended
\* slice that is ordered by Version can be the result
SortedBy(s) ==
    {[i \in 1..Len(s) |-> s[p[i]]] : p \in
        {q \in Permutations(1..Len(s)) :
            \A i \in 1..Len(s) - 1 : ~(s[q[i + 1]].Version < s[q[i]].Version)}}

\* LoadMigrations: the possible results for directory d
LoadMigrations(d) ==
    IF LoadFails(d) THEN [err |-> TRUE, results |-> {<<>>}]
    ELSE [err |-> FALSE, results |-> SortedBy(Collect(d))]


\* ------------------------------------------------------------------ state
VARIABLES
    dir,        \* the embedded migrations directory (fixed by the build)
    committed,  \* the committed database: [table, ledger]
    work,       \* the database as seen inside the open transaction
    txStatus,   \* per transaction: unused, active, failed, committed, rolledback
    txOwner,    \* per transaction: none, user (caller's), lib (Connector's)
    readerMgr,  \* SQLReader.migrations: Nil or the handle of the stored manager
    call,       \* the Connector call in progress or just finished
    prev,       \* summary of the call finished before this one
    log,        \* the database calls made by this call, in order
    ncalls,     \* Connector calls started so far
    nexternal,  \* changes made to the database by hand so far
    loaded,     \* one LoadMigrations call on its own: listing and outcome
    cdb,        \* two concurrent calls: the committed database
    sess,       \* two concurrent calls: the transaction of each call
    proc,       \* two concurrent calls: the position and locals of each call
    qfs,        \* the embedded queries directory: entries with their content
    store,      \* the queryStore of the SQLReader: state and name -> SQL
    qconn,      \* the Connector made from the SQLReader, if any
    got,        \* the last lookup by name and what came of it
    dbq         \* what the last operation gave the database handle and scanner

\* the state of the scenarios that run beside the Connector calls
storevars == <<qfs, store, qconn, got, dbq>>

aside == <<loaded, cdb, sess, proc, storevars>>

vars == <<dir, committed, work, txStatus, txOwner, readerMgr, call, prev, log,
          ncalls, nexternal, aside>>

TxIds == 1..MaxTx

\* handles: the pool, or the identifier of a transaction
Pool == 0

\* SQLReader.migrations == nil
Nil == -1

\* versions a caller records by hand
ExtVersions == {1, 3}

Row(v, n) == [version |-> v, name |-> n]

Versions(ledger) == {r.version : r \in ledger}

EmptyDb == [table |-> FALSE, ledger |-> {}]

NoCall ==
    [op |-> "none", pc |-> "idle", conn |-> Pool, mgr |-> Pool,
     wrap |-> FALSE, entered |-> FALSE, active |-> FALSE, tx |-> 0, migrations |-> <<>>, applied |-> {}, idx |-> 0,
     last |-> ZeroMigration, eres |-> "none", result |-> "none", pre |-> {},
     start |-> {}, end |-> {}]

NoPrev ==
    [op |-> "none", result |-> "none", start |-> {}, end |-> {}, ups |-> 0,
     upvers |-> {}]

Entry(op, h, v, n, sql, ok) ==
    [op |-> op, h |-> h, ver |-> v, name |-> n, sql |-> sql, ok |-> ok]

\* ------------------------------------------------------------- database
OpenTx == {t \in TxIds : txStatus[t] \in {"active", "failed"}}

\* h.(pgx.Tx): the type of the handle, whatever the state of the transaction
IsTx(h) == h # Pool

\* a statement can be served on h: the pool, or a transaction still healthy
Usable(h) == IF h = Pool THEN TRUE ELSE txStatus[h] = "active"

View(h) == IF h = Pool THEN committed ELSE work

\* the outcome of one statement on h: the log entry, and on success the new
\* database seen through h.  A statement that fails on the server aborts its
\* transaction, one that fails before it gets there does not.
Exec(h, ok, newdb, entry) ==
    /\ log' = Append(log, entry)
    /\ IF ~ok
       THEN /\ UNCHANGED <<committed, work>>
            /\ \E aborts \in BOOLEAN :
                txStatus' = IF h = Pool THEN txStatus
                            ELSE IF txStatus[h] = "active" /\ aborts
                                 THEN [txStatus EXCEPT ![h] = "failed"]
                            ELSE txStatus
       ELSE /\ UNCHANGED txStatus
            /\ IF h = Pool
               THEN /\ committed' = newdb
                    /\ work' = IF OpenTx = {} THEN newdb
                               ELSE [work EXCEPT !.table = work.table \/ newdb.table]
               ELSE /\ work' = newdb
                    /\ UNCHANGED committed

\* an Initialize that drops the table and creates it anew
CreateTable_Recreate(h, ok) ==
    /\ ok => Usable(h)
    /\ Exec(h, ok, [table |-> TRUE, ledger |-> {}],
            Entry("create", h, 0, <<>>, <<>>, ok))

\* CREATE TABLE IF NOT EXISTS schema_migrations
CreateTable(h, ok) ==
    /\ ok => Usable(h)
    /\ Exec(h, ok, [View(h) EXCEPT !.table = TRUE],
            Entry("create", h, 0, <<>>, <<>>, ok))

\* SELECT version, name, applied_at FROM schema_migrations
CanSelect(h) == Usable(h) /\ View(h).table

\* a ledger table whose version column is no key
CanInsert_NoKey(h, v) == Usable(h) /\ View(h).table

\* INSERT INTO schema_migrations: version is the primary key
CanInsert(h, v) == Usable(h) /\ View(h).table /\ v \notin Versions(View(h).ledger)

InsertRow(db, v, n) == [db EXCEPT !.ledger = @ \cup {Row(v, n)}]

\* a DELETE without its WHERE clause
DeleteRow_All(db, v) == [db EXCEPT !.ledger = {}]

\* DELETE FROM schema_migrations WHERE version = v
DeleteRow(db, v) == [db EXCEPT !.ledger = {r \in @ : r.version # v}]

\* ------------------------------------------------------------------ Init
\* no LoadMigrations call on its own
NotLoaded == [input |-> <<>>, done |-> FALSE, err |-> FALSE, result |-> <<>>]

\* the two concurrent Connector.Migrate calls
Procs == {1, 2}

NoSession == [status |-> "none", table |-> FALSE, rows |-> {}, ups |-> {}]

NoProc ==
    [pc |-> "c_init", migrations |-> <<>>, applied |-> {}, idx |-> 0,
     tried |-> {}, why |-> "none", eres |-> "none", result |-> "none"]

\* an empty database and two calls about to be made
\* no SQLReader made yet over an empty queries directory
NoStore == [state |-> "none", queries |-> <<>>]

NoGot == [op |-> "none", name |-> <<>>, panic |-> FALSE, text |-> <<>>]

\* no call on the database handle, no call of the scanner
NoDb == [sql |-> <<>>, scanned |-> FALSE, err |-> FALSE]

InitStore ==
    /\ qfs = <<>>
    /\ store = NoStore
    /\ qconn = "none"
    /\ got = NoGot
    /\ dbq = NoDb

InitRace ==
    /\ cdb = [table |-> FALSE, ledger |-> {}, ups |-> {}]
    /\ sess = [p \in Procs |-> NoSession]
    /\ proc = [p \in Procs |-> NoProc]

\* a fresh SQLReader on an empty database, no call made yet
InitReader ==
    /\ committed = EmptyDb
    /\ work = EmptyDb
    /\ txStatus = [t \in TxIds |-> "unused"]
    /\ txOwner = [t \in TxIds |-> "none"]
    /\ readerMgr = Nil
    /\ call = NoCall
    /\ prev = NoPrev
    /\ log = <<>>
    /\ ncalls = 0
    /\ nexternal = 0

Init ==
    /\ dir \in Dirs
    /\ loaded = NotLoaded
    /\ InitRace
    /\ InitStore
    /\ InitReader

Idle == call.pc \in {"idle", "done"}

Summary(c) ==
    [op |-> c.op, result |-> c.result, start |-> c.start, end |-> c.end,
     ups |-> Cardinality({i \in 1..Len(log) : log[i].op = "up"}),
     upvers |-> {log[i].ver : i \in {j \in 1..Len(log) : log[j].op = "up"}}]

\* the caller moves on: the finished call becomes the previous one
Archive ==
    /\ prev' = IF call.pc = "done" THEN Summary(call) ELSE prev
    /\ call' = [call EXCEPT !.pc = "idle"]

FreeTx == {t \in TxIds : txStatus[t] = "unused"}

NewTx == CHOOSE t \in FreeTx : \A u \in FreeTx : t <= u

\* -------------------------------------------------------------- the caller
\* sqlreader.New: a fresh SQLReader has no migration manager
NewReader ==
    /\ Idle
    /\ readerMgr # Nil
    /\ readerMgr' = Nil
    /\ Archive
    /\ UNCHANGED <<aside, dir, committed, work, txStatus, txOwner, log, ncalls, nexternal>>

\* pool.Begin by the caller (one transaction at a time)
UserBegin ==
    /\ Idle
    /\ OpenTx = {}
    /\ FreeTx # {}
    /\ txStatus' = [txStatus EXCEPT ![NewTx] = "active"]
    /\ txOwner' = [txOwner EXCEPT ![NewTx] = "user"]
    /\ work' = committed
    /\ Archive
    /\ UNCHANGED <<aside, dir, committed, readerMgr, log, ncalls, nexternal>>

\* tx.Commit by the caller: an aborted transaction is rolled back instead
UserCommit ==
    /\ Idle
    /\ \E t \in OpenTx :
        /\ txOwner[t] = "user"
        /\ IF txStatus[t] = "active"
           THEN /\ txStatus' = [txStatus EXCEPT ![t] = "committed"]
                /\ committed' = work
                /\ UNCHANGED work
           ELSE /\ txStatus' = [txStatus EXCEPT ![t] = "rolledback"]
                /\ work' = committed
                /\ UNCHANGED committed
    /\ Archive
    /\ UNCHANGED <<aside, dir, txOwner, readerMgr, log, ncalls, nexternal>>

\* tx.Rollback by the caller
UserRollback ==
    /\ Idle
    /\ \E t \in OpenTx :
        /\ txOwner[t] = "user"
        /\ txStatus' = [txStatus EXCEPT ![t] = "rolledback"]
        /\ work' = committed
    /\ Archive
    /\ UNCHANGED <<aside, dir, committed, txOwner, readerMgr, log, ncalls, nexternal>>

\* the handle the caller's own statements go to
UserHandle == IF OpenTx = {} THEN Pool ELSE CHOOSE t \in OpenTx : TRUE

\* a ledger row recorded by hand (example.go, two-phase approach)
ExternalInsert ==
    /\ Idle
    /\ nexternal < MaxExternal
    /\ \E v \in ExtVersions :
        /\ CanInsert(UserHandle, v)
        /\ IF UserHandle = Pool
           THEN /\ committed' = InsertRow(committed, v, <<"h">>)
                /\ work' = InsertRow(committed, v, <<"h">>)
           ELSE /\ work' = InsertRow(work, v, <<"h">>)
                /\ UNCHANGED committed
    /\ nexternal' = nexternal + 1
    /\ Archive
    /\ UNCHANGED <<aside, dir, txStatus, txOwner, readerMgr, log, ncalls>>

\* resetDatabase of the example: the ledger table is dropped through the pool
ResetDatabase ==
    /\ Idle
    /\ nexternal < MaxExternal
    /\ OpenTx = {}
    /\ committed.table
    /\ committed' = EmptyDb
    /\ work' = EmptyDb
    /\ nexternal' = nexternal + 1
    /\ Archive
    /\ UNCHANGED <<aside, dir, txStatus, txOwner, readerMgr, log, ncalls>>

\* the connectors the caller can hold: ConnectPool(pool) while no transaction
\* is open, ConnectTx(tx) on its open transaction
Connectors ==
    IF OpenTx = {} THEN {Pool} ELSE {t \in OpenTx : txOwner[t] = "user"}

\* entry of Connector.Migrate, Connector.Rollback or Connector.InitiateMigration
Start(op) ==
    /\ Idle
    /\ ncalls < MaxCalls
    /\ \E c \in Connectors :
        /\ c = Pool /\ op # "Initiate" => FreeTx # {}
        /\ call' = [NoCall EXCEPT !.op = op, !.conn = c,
                       !.pc = IF op = "Initiate" \/ readerMgr = Nil
                              THEN "c_init" ELSE "c_dispatch",
                       !.pre = committed.ledger]
    /\ prev' = IF call.pc = "done" THEN Summary(call) ELSE prev
    /\ log' = <<>>
    /\ ncalls' = ncalls + 1
    /\ UNCHANGED <<aside, dir, committed, work, txStatus, txOwner, readerMgr, nexternal>>

StartMigrate == Start("Migrate")

StartRollback == Start("Rollback")

StartInitiate == Start("Initiate")

Return(res) == [call EXCEPT !.pc = "done", !.result = res]


\* ----------------------------------------------------- Connector, entry
\* the first statement of the engine for the operation of the call
EngineEntry(op) == IF op = "Migrate" THEN "m_init" ELSE "r_get"

\* Connector.InitiateMigration: store a manager bound to the connector's own
\* handle in the shared reader, then Initialize through it.  Migrate and
\* Rollback call it only when the reader has no manager yet.
ConnInitiate ==
    /\ call.pc = "c_init"
    /\ readerMgr' = call.conn
    /\ \E ok \in BOOLEAN :
        /\ CreateTable(call.conn, ok)
        /\ call' = IF call.op = "Initiate"
                   THEN Return(IF ok THEN "ok" ELSE "err")
                   ELSE IF ok THEN [call EXCEPT !.pc = "c_dispatch"]
                   ELSE Return("err")
    /\ UNCHANGED <<aside, dir, txOwner, prev, ncalls, nexternal>>

\* a Connector that ends the caller's transaction as if it had begun it
ConnUseReaderManager_Owning ==
    /\ call.pc = "c_dispatch"
    /\ IsTx(call.conn)
    /\ call' = [call EXCEPT !.mgr = readerMgr, !.wrap = TRUE, !.tx = call.conn,
                            !.entered = TRUE,
                            !.active = IF readerMgr = Pool THEN FALSE
                                       ELSE txStatus[readerMgr] = "active",
                            !.pc = EngineEntry(call.op),
                            !.start = View(readerMgr).ledger]
    /\ UNCHANGED <<aside, dir, committed, work, txStatus, txOwner, readerMgr, prev, log,
                   ncalls, nexternal>>

\* c.db is a pgx.Tx: run the engine of the manager stored in the reader
ConnUseReaderManager ==
    /\ call.pc = "c_dispatch"
    /\ IsTx(call.conn)
    /\ call' = [call EXCEPT !.mgr = readerMgr, !.wrap = FALSE,
                            !.entered = TRUE,
                            !.active = IF readerMgr = Pool THEN FALSE
                                       ELSE txStatus[readerMgr] = "active",
                            !.pc = EngineEntry(call.op),
                            !.start = View(readerMgr).ledger]
    /\ UNCHANGED <<aside, dir, committed, work, txStatus, txOwner, readerMgr, prev, log,
                   ncalls, nexternal>>

\* c.db is the pool: conn.Begin, then a new manager bound to the transaction
ConnBegin ==
    /\ call.pc = "c_dispatch"
    /\ ~IsTx(call.conn)
    /\ \E ok \in BOOLEAN :
        /\ log' = Append(log, Entry("begin", Pool, 0, <<>>, <<>>, ok))
        /\ IF ok
           THEN /\ txStatus' = [txStatus EXCEPT ![NewTx] = "active"]
                /\ txOwner' = [txOwner EXCEPT ![NewTx] = "lib"]
                /\ work' = committed
                /\ call' = [call EXCEPT !.mgr = NewTx, !.tx = NewTx,
                                        !.wrap = TRUE, !.entered = TRUE,
                                        !.active = TRUE,
                                        !.pc = EngineEntry(call.op),
                                        !.start = committed.ledger]
           ELSE /\ call' = Return("err")
                /\ UNCHANGED <<txStatus, txOwner, work>>
    /\ UNCHANGED <<aside, dir, committed, readerMgr, prev, ncalls, nexternal>>

\* the engine returns res to the Connector; ledger is what its handle sees
EngineReturn(res, ledger) ==
    IF call.wrap
    THEN [call EXCEPT !.eres = res, !.end = ledger, !.pc = "c_end"]
    ELSE [call EXCEPT !.eres = res, !.end = ledger, !.result = res,
                      !.pc = "done"]

\* a Connector that commits whatever the engine returned
EndsWithCommit_Always(eres) == TRUE

\* a Connector that rolls back whatever the engine returned
EndsWithCommit_Never(eres) == FALSE

\* how the Connector ends the transaction it began: commit after a
\* successful engine call, roll back after a failed one
EndsWithCommit(eres) == eres = "ok"

\* the tail of Connector.Migrate and Connector.Rollback on a pool
ConnEnd ==
    /\ call.pc = "c_end"
    /\ IF EndsWithCommit(call.eres)
       THEN \E ok \in BOOLEAN :
            /\ ok => txStatus[call.tx] = "active"
            /\ log' = Append(log, Entry("commit", call.tx, 0, <<>>, <<>>, ok))
            /\ IF ok
               THEN /\ committed' = work
                    /\ UNCHANGED work
                    /\ txStatus' = [txStatus EXCEPT ![call.tx] = "committed"]
                    /\ call' = Return("ok")
               ELSE /\ work' = committed
                    /\ UNCHANGED committed
                    /\ txStatus' = [txStatus EXCEPT ![call.tx] = "rolledback"]
                    /\ call' = Return("err")
       ELSE /\ log' = Append(log, Entry("rollback", call.tx, 0, <<>>, <<>>, TRUE))
            /\ work' = committed
            /\ UNCHANGED committed
            /\ txStatus' = [txStatus EXCEPT ![call.tx] = "rolledback"]
            /\ call' = Return("err")
    /\ UNCHANGED <<aside, dir, txOwner, readerMgr, prev, ncalls, nexternal>>

\* ------------------------------------------------- migrationManager.Migrate
\* m.Initialize(ctx)
MigInitialize ==
    /\ call.pc = "m_init"
    /\ \E ok \in BOOLEAN :
        /\ CreateTable(call.mgr, ok)
        /\ call' = IF ok THEN [call EXCEPT !.pc = "m_load"]
                   ELSE EngineReturn("err", View(call.mgr).ledger)
    /\ UNCHANGED <<aside, dir, txOwner, readerMgr, prev, ncalls, nexternal>>

\* m.LoadMigrations()
MigLoad ==
    /\ call.pc = "m_load"
    /\ IF LoadMigrations(dir).err
       THEN call' = EngineReturn("err", View(call.mgr).ledger)
       ELSE \E r \in LoadMigrations(dir).results :
                call' = [call EXCEPT !.migrations = r, !.pc = "m_get"]
    /\ UNCHANGED <<aside, dir, committed, work, txStatus, txOwner, readerMgr, prev, log,
                   ncalls, nexternal>>

\* a manager that keeps the ledger it saw at the end of the previous call
ReadLedger_Cached(h) == prev.end

\* the map GetAppliedMigrations builds: the rows of the ledger as the handle
\* sees them when the query runs
ReadLedger(h) == View(h).ledger

\* m.GetAppliedMigrations(ctx)
MigGetApplied ==
    /\ call.pc = "m_get"
    /\ \E ok \in BOOLEAN :
        /\ ok => CanSelect(call.mgr)
        /\ Exec(call.mgr, ok, View(call.mgr),
                Entry("select", call.mgr, 0, <<>>, <<>>, ok))
        /\ call' = IF ok
                   THEN [call EXCEPT !.applied = ReadLedger(call.mgr),
                                     !.pc = "m_tx"]
                   ELSE EngineReturn("err", View(call.mgr).ledger)
    /\ UNCHANGED <<aside, dir, txOwner, readerMgr, prev, ncalls, nexternal>>

\* an engine that takes any handle for a transaction
RequireTx_Any(h) == TRUE

\* tx, ok := m.db.(pgx.Tx): the engine goes on only with a transaction
RequireTx(h) == IsTx(h)

\* the check of the handle in Migrate
MigTxCheck ==
    /\ call.pc = "m_tx"
    /\ call' = IF RequireTx(call.mgr) THEN [call EXCEPT !.idx = 1, !.pc = "m_up"]
               ELSE EngineReturn("err", View(call.mgr).ledger)
    /\ UNCHANGED <<aside, dir, committed, work, txStatus, txOwner, readerMgr, prev, log,
                   ncalls, nexternal>>

\* a loop that takes every loaded migration for pending
IsPending_Always(m, applied) == TRUE

\* a loop that applies only what lies above the highest applied version
IsPending_AboveHighest(m, applied) ==
    \A v \in Versions(applied) : m.Version > v

\* if _, exists := applied[migration.Version]; !exists
IsPending(m, applied) == m.Version \notin Versions(applied)

\* a loop that walks the slice from its end
NextPending_Descending(migrations, applied, idx) ==
    LET rest == {i \in 1..Len(migrations) :
                    /\ IsPending(migrations[i], applied)
                    /\ idx = 1 \/ i < idx - 1}
    IN IF rest = {} THEN 0 ELSE CHOOSE i \in rest : \A j \in rest : i >= j

\* a loop that stops after the first pending migration
NextPending_OnlyFirst(migrations, applied, idx) ==
    LET rest == {i \in idx..Len(migrations) : IsPending(migrations[i], applied)}
    IN IF rest = {} \/ idx > 1 THEN 0 ELSE CHOOSE i \in rest : \A j \in rest : i <= j

\* the index of the next migration the loop applies from position idx on,
\* 0 when the loop is over
NextPending(migrations, applied, idx) ==
    LET rest == {i \in idx..Len(migrations) : IsPending(migrations[i], applied)}
    IN IF rest = {} THEN 0 ELSE CHOOSE i \in rest : \A j \in rest : i <= j

\* a loop that goes on to record a migration whose up statement failed
AfterUp_IgnoreError(ok, i) == [call EXCEPT !.idx = i, !.pc = "m_ins"]

\* after the up statement of migrations[i]: record it, or return the error
AfterUp(ok, i) ==
    IF ok THEN [call EXCEPT !.idx = i, !.pc = "m_ins"]
    ELSE EngineReturn("err", View(call.mgr).ledger)

\* tx.Exec(ctx, migration.UpSQL) of the next pending migration, or the end
\* of the loop
MigUp ==
    /\ call.pc = "m_up"
    /\ LET i == NextPending(call.migrations, call.applied, call.idx) IN
       IF i = 0
       THEN /\ call' = EngineReturn("ok", View(call.mgr).ledger)
            /\ UNCHANGED <<committed, work, txStatus, log>>
       ELSE \E ok \in BOOLEAN :
            /\ ok => Usable(call.mgr)
            /\ Exec(call.mgr, ok, View(call.mgr),
                    Entry("up", call.mgr, call.migrations[i].Version,
                          call.migrations[i].Name, call.migrations[i].UpSQL, ok))
            /\ call' = AfterUp(ok, i)
    /\ UNCHANGED <<aside, dir, txOwner, readerMgr, prev, ncalls, nexternal>>

\* a Migrate that records the version after the one it applied
RecordOf_NextVersion(m) == Row(m.Version + 1, m.Name)

\* the row Migrate records for migration m
RecordOf(m) == Row(m.Version, m.Name)

\* INSERT INTO schema_migrations of the migration just applied
MigRecord ==
    /\ call.pc = "m_ins"
    /\ LET m == call.migrations[call.idx]
           r == RecordOf(m) IN
       \E ok \in BOOLEAN :
        /\ ok => CanInsert(call.mgr, r.version)
        /\ Exec(call.mgr, ok, InsertRow(View(call.mgr), r.version, r.name),
                Entry("insert", call.mgr, r.version, r.name, <<>>, ok))
        /\ call' = IF ok THEN [call EXCEPT !.idx = call.idx + 1, !.pc = "m_up"]
                   ELSE EngineReturn("err", View(call.mgr).ledger)
    /\ UNCHANGED <<aside, dir, txOwner, readerMgr, prev, ncalls, nexternal>>


\* ------------------------------------------------ migrationManager.Rollback
\* the orders in which "for version := range applied" can visit the keys
RangeOrders(S) ==
    {f \in [1..Cardinality(S) -> S] :
        \A i, j \in 1..Cardinality(S) : f[i] = f[j] => i = j}

RECURSIVE FirstMatch(_, _, _)
\* the inner loop: the first loaded migration with this version, and the
\* value lastMigration already holds when there is none
FirstMatch(migrations, version, held) ==
    IF Len(migrations) = 0 THEN held
    ELSE IF migrations[1].Version = version THEN migrations[1]
    ELSE FirstMatch(Tail(migrations), version, held)

\* if version > lastVersion
Later(version, lastVersion) == version > lastVersion

\* a loop that stops at the version it visits first
SelectLast_FirstVisited(ord, migrations, lastVersion, lastMigration) ==
    IF Len(ord) = 0 THEN lastMigration
    ELSE FirstMatch(migrations, ord[1], lastMigration)

RECURSIVE SelectLast(_, _, _, _)
\* the outer loop over the applied versions in visiting order ord, from
\* lastVersion and lastMigration as they stand
SelectLast(ord, migrations, lastVersion, lastMigration) ==
    IF Len(ord) = 0 THEN lastMigration
    ELSE IF Later(ord[1], lastVersion)
         THEN SelectLast(Tail(ord), migrations, ord[1],
                         FirstMatch(migrations, ord[1], lastMigration))
         ELSE SelectLast(Tail(ord), migrations, lastVersion, lastMigration)

\* a Rollback that goes on with an empty applied map
NothingApplied_Never(applied) == FALSE

\* if len(applied) == 0
NothingApplied(applied) == applied = {}

\* m.GetAppliedMigrations(ctx), and the return when nothing is applied
RbGetApplied ==
    /\ call.pc = "r_get"
    /\ \E ok \in BOOLEAN :
        /\ ok => CanSelect(call.mgr)
        /\ Exec(call.mgr, ok, View(call.mgr),
                Entry("select", call.mgr, 0, <<>>, <<>>, ok))
        /\ call' = IF ~ok THEN EngineReturn("err", View(call.mgr).ledger)
                   ELSE IF NothingApplied(ReadLedger(call.mgr))
                        THEN EngineReturn("ok", View(call.mgr).ledger)
                   ELSE [call EXCEPT !.applied = ReadLedger(call.mgr),
                                     !.pc = "r_load"]
    /\ UNCHANGED <<aside, dir, txOwner, readerMgr, prev, ncalls, nexternal>>

\* a Rollback that takes any handle for a transaction
RollbackRequireTx_Any(h) == TRUE

\* tx, ok := m.db.(pgx.Tx) in Rollback
RollbackRequireTx(h) == IsTx(h)

\* m.LoadMigrations(), the choice of lastMigration and the check that the
\* handle is a pgx.Tx
RbSelect ==
    /\ call.pc = "r_load"
    /\ IF LoadMigrations(dir).err
       THEN call' = EngineReturn("err", View(call.mgr).ledger)
       ELSE \E r \in LoadMigrations(dir).results :
            \E ord \in RangeOrders(Versions(call.applied)) :
                call' = IF RollbackRequireTx(call.mgr)
                        THEN [call EXCEPT !.migrations = r,
                                          !.last = SelectLast(ord, r, 0, ZeroMigration),
                                          !.pc = "r_down"]
                        ELSE EngineReturn("err", View(call.mgr).ledger)
    /\ UNCHANGED <<aside, dir, committed, work, txStatus, txOwner, readerMgr, prev, log,
                   ncalls, nexternal>>

\* a Rollback that removes the record although the down statement failed
AfterDown_IgnoreError(ok) == [call EXCEPT !.pc = "r_del"]

\* after the down statement: remove the record, or return the error
AfterDown(ok) ==
    IF ok THEN [call EXCEPT !.pc = "r_del"]
    ELSE EngineReturn("err", View(call.mgr).ledger)

\* tx.Exec(ctx, lastMigration.DownSQL)
RbDown ==
    /\ call.pc = "r_down"
    /\ \E ok \in BOOLEAN :
        /\ ok => Usable(call.mgr)
        /\ Exec(call.mgr, ok, View(call.mgr),
                Entry("down", call.mgr, call.last.Version, call.last.Name,
                      call.last.DownSQL, ok))
        /\ call' = AfterDown(ok)
    /\ UNCHANGED <<aside, dir, txOwner, readerMgr, prev, ncalls, nexternal>>

\* DELETE FROM schema_migrations WHERE version = lastMigration.Version
RbDelete ==
    /\ call.pc = "r_del"
    /\ \E ok \in BOOLEAN :
        /\ ok => CanSelect(call.mgr)
        /\ Exec(call.mgr, ok, DeleteRow(View(call.mgr), call.last.Version),
                Entry("delete", call.mgr, call.last.Version, call.last.Name,
                      <<>>, ok))
        /\ call' = IF ok
                   THEN EngineReturn("ok",
                            DeleteRow(View(call.mgr), call.last.Version).ledger)
                   ELSE EngineReturn("err", View(call.mgr).ledger)
    /\ UNCHANGED <<aside, dir, txOwner, readerMgr, prev, ncalls, nexternal>>

\* ------------------------------------------------------------ the system
Next ==
    \/ NewReader
    \/ UserBegin
    \/ UserCommit
    \/ UserRollback
    \/ ExternalInsert
    \/ ResetDatabase
    \/ StartMigrate
    \/ StartRollback
    \/ StartInitiate
    \/ ConnInitiate
    \/ ConnUseReaderManager
    \/ ConnBegin
    \/ ConnEnd
    \/ MigInitialize
    \/ MigLoad
    \/ MigGetApplied
    \/ MigTxCheck
    \/ MigUp
    \/ MigRecord
    \/ RbGetApplied
    \/ RbSelect
    \/ RbDown
    \/ RbDelete

Spec == Init /\ [][Next]_vars

\* ------------------------------------------- LoadMigrations on its own
\* files in one listing
MaxFiles == 2

\* a directory entry as the file system gives it: the name without its
\* extension as characters, the content as tokens
Listed(isDir, name, ext, content) ==
    [isDir |-> isDir, name |-> name, ext |-> ext, content |-> content]

Sql(name, content) == Listed(FALSE, name, ".sql", content)

\* "<up>\n\n-- Down\n<down>\n"
UpDown(up, down) == <<" ", up, " ", "-- Down", " ", down, " ">>

Listable ==
    { Sql(<<"1", "_", "a">>, UpDown("u1", "d1")),
      Sql(<<"2", "_", "b">>, UpDown("u2", "d2")),
      Sql(<<"0", "2", "_", "c">>, UpDown("u02", "d02")),
      Sql(<<"3">>, UpDown("u3", "d3")),
      Sql(<<"1", "x", "_", "d">>, UpDown("u1x", "d1x")),
      Sql(<<"x", "_", "e">>, UpDown("ux", "dx")),
      Sql(<<"-", "1", "_", "f">>, UpDown("um", "dm")),
      Sql(<<"4", "_", "g", "_", "h">>, UpDown("u4", "d4")),
      Sql(<<"5", "_", "i">>, <<"u5", " ">>),
      Sql(<<"6", "_", "j">>, <<"u6", "-- Down", "d6", "-- Down", "e6">>),
      Sql(<<"_", "m">>, UpDown("u", "d")),
      Listed(TRUE, <<"7", "_", "k">>, ".sql", <<>>),
      Listed(FALSE, <<"8", "_", "l">>, ".txt", <<"t">>) }

\* the listings of at most MaxFiles entries, no entry listed twice
Listings ==
    {l \in UNION {[1..n -> Listable] : n \in 0..MaxFiles} :
        \A i, j \in 1..Len(l) : l[i] = l[j] => i = j}

RECURSIVE Split(_, _)
\* strings.Split(s, sep): the pieces of s between the occurrences of sep
Split(s, sep) ==
    IF \A i \in 1..Len(s) : s[i] # sep THEN <<s>>
    ELSE LET k == CHOOSE i \in 1..Len(s) :
                      s[i] = sep /\ \A j \in 1..(i - 1) : s[j] # sep
         IN <<SubSeq(s, 1, k - 1)>> \o Split(SubSeq(s, k + 1, Len(s)), sep)

\* what the loop of LoadMigrations makes of an entry before it parses it
Entered(e) ==
    File(e.isDir, e.ext, Split(e.name, "_"), Split(e.content, "-- Down"))

InitLoad ==
    /\ loaded \in {[NotLoaded EXCEPT !.input = l] : l \in Listings}
    /\ dir = [i \in 1..Len(loaded.input) |-> Entered(loaded.input[i])]
    /\ InitRace
    /\ InitStore
    /\ InitReader

\* one call of LoadMigrations on the listing
Load ==
    /\ ~loaded.done
    /\ \E r \in LoadMigrations(dir).results :
        loaded' = [loaded EXCEPT !.done = TRUE, !.result = r,
                                 !.err = LoadMigrations(dir).err]
    /\ UNCHANGED <<dir, cdb, sess, proc, storevars, committed, work, txStatus,
                   txOwner, readerMgr, call, prev, log, ncalls, nexternal>>

NextLoad == Load

SpecLoad == InitLoad /\ [][NextLoad]_vars

\* ------------------------- two Connector.Migrate calls at the same time
\* Each call is made on a pool connector and runs in the transaction it
\* begins.  The database is PostgreSQL at its default isolation: a statement
\* sees what is committed and what its own transaction did; an insert of a
\* key that another open transaction has inserted waits for that transaction
\* to end; so does the creation of a table another open transaction created.
readervars ==
    <<committed, work, txStatus, txOwner, readerMgr, call, prev, log, ncalls,
      nexternal>>

Other(p) == CHOOSE q \in Procs : q # p

Open(q) == sess[q].status \in {"active", "failed"}

\* the ledger as a statement of p sees it
Seen(p) == cdb.ledger \cup sess[p].rows

TableSeen(p) == cdb.table \/ sess[p].table

\* CREATE TABLE IF NOT EXISTS has to wait for the other transaction
TableWaits(p) == ~cdb.table /\ Open(Other(p)) /\ sess[Other(p)].table

\* a ledger table without its primary key
Taken_Never(p, v) == FALSE

\* version is the primary key: a row of this version is there already
Taken(p, v) == v \in Versions(Seen(p))

\* the insert has to wait for the other transaction, which has inserted a
\* row of this version and is still open
InsertWaits(p, v) == Open(Other(p)) /\ v \in Versions(sess[Other(p)].rows)

\* the call of p leaves the engine with res; a failed statement has aborted
\* its transaction
RaceReturn(p, res, why) ==
    /\ proc' = [proc EXCEPT ![p].eres = res, ![p].why = why, ![p].pc = "c_end"]
    /\ sess' = IF res = "ok" THEN sess ELSE [sess EXCEPT ![p].status = "failed"]

\* if c.reader.migrations == nil: InitiateMigration through the pool
RaceInitiate(p) ==
    /\ proc[p].pc = "c_init"
    /\ \E fresh \in BOOLEAN, ok \in BOOLEAN :
        IF ~fresh
        THEN /\ proc' = [proc EXCEPT ![p].pc = "c_begin"]
             /\ UNCHANGED cdb
        ELSE /\ ok => ~TableWaits(p)
             /\ cdb' = IF ok THEN [cdb EXCEPT !.table = TRUE] ELSE cdb
             /\ proc' = IF ok THEN [proc EXCEPT ![p].pc = "c_begin"]
                        ELSE [proc EXCEPT ![p].pc = "done", ![p].result = "err"]
    /\ UNCHANGED <<dir, loaded, sess, readervars, storevars>>

\* conn.Begin
RaceBegin(p) ==
    /\ proc[p].pc = "c_begin"
    /\ \E ok \in BOOLEAN :
        IF ok
        THEN /\ sess' = [sess EXCEPT ![p].status = "active"]
             /\ proc' = [proc EXCEPT ![p].pc = "m_init"]
        ELSE /\ proc' = [proc EXCEPT ![p].pc = "done", ![p].result = "err"]
             /\ UNCHANGED sess
    /\ UNCHANGED <<dir, loaded, cdb, readervars, storevars>>

\* m.Initialize(ctx) in the transaction
RaceInitialize(p) ==
    /\ proc[p].pc = "m_init"
    /\ \E ok \in BOOLEAN :
        /\ ok => ~TableWaits(p)
        /\ IF ok
           THEN /\ sess' = [sess EXCEPT ![p].table = ~cdb.table]
                /\ proc' = [proc EXCEPT ![p].pc = "m_load"]
           ELSE RaceReturn(p, "err", "other")
    /\ UNCHANGED <<dir, loaded, cdb, readervars, storevars>>

\* m.LoadMigrations()
RaceLoad(p) ==
    /\ proc[p].pc = "m_load"
    /\ IF LoadMigrations(dir).err
       THEN RaceReturn(p, "err", "other")
       ELSE /\ \E r \in LoadMigrations(dir).results :
                  proc' = [proc EXCEPT ![p].migrations = r, ![p].pc = "m_get"]
            /\ UNCHANGED sess
    /\ UNCHANGED <<dir, loaded, cdb, readervars, storevars>>

\* m.GetAppliedMigrations(ctx); the handle is a pgx.Tx
RaceGetApplied(p) ==
    /\ proc[p].pc = "m_get"
    /\ \E ok \in BOOLEAN :
        /\ ok => TableSeen(p)
        /\ IF ok
           THEN /\ proc' = [proc EXCEPT ![p].applied = Seen(p), ![p].idx = 1,
                                        ![p].pc = "m_up"]
                /\ UNCHANGED sess
           ELSE RaceReturn(p, "err", "other")
    /\ UNCHANGED <<dir, loaded, cdb, readervars, storevars>>

\* the effect of an up statement, held by the transaction that executed it
UpOf(p, m) == [by |-> p, ver |-> m.Version, name |-> m.Name]

\* tx.Exec(ctx, migration.UpSQL) of the next pending migration, or the end
\* of the loop
RaceUp(p) ==
    /\ proc[p].pc = "m_up"
    /\ LET i == NextPending(proc[p].migrations, proc[p].applied, proc[p].idx) IN
       IF i = 0
       THEN RaceReturn(p, "ok", "none")
       ELSE \E ok \in BOOLEAN :
            IF ok
            THEN /\ sess' = [sess EXCEPT ![p].ups =
                                @ \cup {UpOf(p, proc[p].migrations[i])}]
                 /\ proc' = [proc EXCEPT ![p].idx = i, ![p].pc = "m_ins",
                                  ![p].tried = @ \cup {proc[p].migrations[i].Version}]
            ELSE RaceReturn(p, "err", "other")
    /\ UNCHANGED <<dir, loaded, cdb, readervars, storevars>>

\* INSERT INTO schema_migrations of the migration just applied
RaceRecord(p) ==
    /\ proc[p].pc = "m_ins"
    /\ LET r == RecordOf(proc[p].migrations[proc[p].idx]) IN
       \E ok \in BOOLEAN :
        /\ ok => ~InsertWaits(p, r.version)
        /\ ok => ~Taken(p, r.version)
        /\ IF ok
           THEN /\ sess' = [sess EXCEPT ![p].rows = @ \cup {r}]
                /\ proc' = [proc EXCEPT ![p].idx = @ + 1, ![p].pc = "m_up"]
           ELSE RaceReturn(p, "err",
                           IF Taken(p, r.version) THEN "unique" ELSE "other")
    /\ UNCHANGED <<dir, loaded, cdb, readervars, storevars>>

\* the tail of Connector.Migrate: tx.Commit after a successful engine call,
\* tx.Rollback after a failed one
RaceEnd(p) ==
    /\ proc[p].pc = "c_end"
    /\ \E ok \in BOOLEAN :
        /\ ok => sess[p].status = "active"
        /\ IF EndsWithCommit(proc[p].eres) /\ ok
           THEN /\ cdb' = [table |-> cdb.table \/ sess[p].table,
                           ledger |-> cdb.ledger \cup sess[p].rows,
                           ups |-> cdb.ups \cup sess[p].ups]
                /\ sess' = [sess EXCEPT ![p].status = "committed"]
                /\ proc' = [proc EXCEPT ![p].pc = "done", ![p].result = "ok"]
           ELSE /\ sess' = [sess EXCEPT ![p].status = "rolledback"]
                /\ proc' = [proc EXCEPT ![p].pc = "done", ![p].result = "err"]
                /\ UNCHANGED cdb
    /\ UNCHANGED <<dir, loaded, readervars, storevars>>

NextRace ==
    \E p \in Procs :
        \/ RaceInitiate(p)
        \/ RaceBegin(p)
        \/ RaceInitialize(p)
        \/ RaceLoad(p)
        \/ RaceGetApplied(p)
        \/ RaceUp(p)
        \/ RaceRecord(p)
        \/ RaceEnd(p)

SpecRace == Init /\ [][NextRace]_vars

\* ------------------------------------------------------- the query store
\* The texts are sequences of tokens: words, blanks and line feeds.  A
\* queries directory is written as a run of lines, with marks where the next
\* file begins.
MaxLines == 5

\* the length of the runs of lines for the scenario with the lookups
MaxShort == 3

SqlExt == ".sql"

TxtExt == ".txt"

NamePrefix == <<"--", " ", "name:">>

NameLine(n) == NamePrefix \o <<" ", n>>

\* the line -- name:a b, the name right after the colon
TightNameLine == NamePrefix \o <<"a", " ", "b">>

\* the lines a query file is made of: name lines, a name line without a
\* name, one with the name right after the colon, SQL lines (one with blanks
\* around it) and the empty line
QueryLines ==
    {NameLine("a"), NameLine("b"), NamePrefix, TightNameLine,
     <<"s1">>, <<" ", "s2", " ">>, <<>>}

\* the names asked for: "c" is in no file
QueryNames == {<<"a">>, <<"b">>, <<"c">>}

Item(brk, ext, text) == [brk |-> brk, ext |-> ext, text |-> text]

Items ==
    {Item(FALSE, SqlExt, l) : l \in QueryLines}
        \cup {Item(TRUE, e, <<>>) : e \in {SqlExt, TxtExt}}

QEntry(ext, content) == [ext |-> ext, isDir |-> FALSE, content |-> content]

RECURSIVE JoinLines(_)
\* strings.Join(lines, "\n")
JoinLines(lines) ==
    IF Len(lines) = 0 THEN <<>>
    ELSE IF Len(lines) = 1 THEN lines[1]
    ELSE lines[1] \o <<NL>> \o JoinLines(Tail(lines))

RECURSIVE Gather(_, _, _)
\* the files a run of items stands for; the first one is a .sql file
Gather(items, ext, lines) ==
    IF Len(items) = 0 THEN <<QEntry(ext, JoinLines(lines))>>
    ELSE IF items[1].brk
         THEN <<QEntry(ext, JoinLines(lines))>> \o Gather(Tail(items), items[1].ext, <<>>)
         ELSE Gather(Tail(items), ext, Append(lines, items[1].text))

\* the queries directories written with at most n lines and marks
QueryDirs(n) ==
    {Gather(items, SqlExt, <<>>) :
        items \in UNION {[1..k -> Items] : k \in 0..n}}

\* a parser that takes every line for a block
SplitBlank_Lines(s) == Split(s, NL)

RECURSIVE SplitAt(_, _)
SplitAt(s, cur) ==
    IF Len(s) = 0 THEN <<cur>>
    ELSE IF Len(s) >= 2 /\ s[1] = NL /\ s[2] = NL
         THEN <<cur>> \o SplitAt(SubSeq(s, 3, Len(s)), <<>>)
         ELSE SplitAt(Tail(s), Append(cur, s[1]))

\* strings.Split(content, "\n\n"): the occurrences are taken from the left
\* and do not overlap
SplitBlank(s) == SplitAt(s, <<>>)

\* strings.HasPrefix
HasPrefix(s, p) == Len(s) >= Len(p) /\ SubSeq(s, 1, Len(p)) = p

RECURSIVE Fields(_)
\* strings.Fields: the runs of tokens between the white space
Fields(s) ==
    IF Len(s) = 0 THEN <<>>
    ELSE IF s[1] \in White THEN Fields(Tail(s))
    ELSE LET stops == {i \in 1..Len(s) : s[i] \in White}
             k == IF stops = {} THEN Len(s) + 1
                  ELSE CHOOSE i \in stops : \A j \in stops : i <= j
         IN <<SubSeq(s, 1, k - 1)>> \o Fields(SubSeq(s, k, Len(s)))

\* a map that keeps the text it got first for a name
Put_KeepFirst(q, n, t) ==
    [x \in DOMAIN q \cup {n} |-> IF x \in DOMAIN q THEN q[x] ELSE t]

\* qs.queries[name] = text
Put(q, n, t) ==
    [x \in DOMAIN q \cup {n} |-> IF x = n THEN t ELSE q[x]]

\* the body of the loop of parseQueries for one block
ParseBlock(q, query) ==
    IF TrimSpace(query) = <<>> THEN q
    ELSE LET lines == Split(query, NL)
         IN IF Len(lines) < 2 THEN q
            ELSE LET nameLine == TrimSpace(lines[1])
                 IN IF ~HasPrefix(nameLine, NamePrefix) THEN q
                    ELSE LET parts == Fields(nameLine)
                         IN IF Len(parts) < 3 THEN q
                            ELSE Put(q, parts[3], TrimSpace(JoinLines(Tail(lines))))

RECURSIVE ParseAll(_, _)
ParseAll(q, blocks) ==
    IF Len(blocks) = 0 THEN q
    ELSE ParseAll(ParseBlock(q, blocks[1]), Tail(blocks))

parseQueries(q, content) == ParseAll(q, SplitBlank(content))

\* strings.HasSuffix(entry.Name(), ".sql") && !entry.IsDir()
Selected(e) == e.ext = SqlExt /\ ~e.isDir

RECURSIVE newQueryStore(_, _)
\* the loop of newQueryStore over the entries, in the order of ReadDir
newQueryStore(q, entries) ==
    IF Len(entries) = 0 THEN q
    ELSE newQueryStore(IF Selected(entries[1])
                       THEN parseQueries(q, entries[1].content) ELSE q,
                       Tail(entries))

\* a store that answers for an unknown name with an empty text
Get_Default(q, n) ==
    IF n \in DOMAIN q THEN [panic |-> FALSE, text |-> q[n]]
    ELSE [panic |-> FALSE, text |-> <<>>]

\* queryStore.get: the text of the name, a panic when there is none
Get(q, n) ==
    IF n \in DOMAIN q THEN [panic |-> FALSE, text |-> q[n]]
    ELSE [panic |-> TRUE, text |-> <<>>]

InitQueries(dirs) ==
    /\ dir = DirOrdered
    /\ loaded = NotLoaded
    /\ InitRace
    /\ InitReader
    /\ qfs \in dirs
    /\ store = NoStore
    /\ qconn = "none"
    /\ got = NoGot
    /\ dbq = NoDb

InitNew == InitQueries(QueryDirs(MaxLines))

InitLookups == InitQueries(QueryDirs(MaxShort))

\* what the store scenario leaves alone
besides ==
    <<dir, loaded, cdb, sess, proc, committed, work, txStatus, txOwner,
      readerMgr, call, prev, log, ncalls, nexternal>>

\* New: the store is loaded, or reading the directory or a file fails
New ==
    /\ store.state = "none"
    /\ \E outcome \in {"ok", "readdir", "readfile"} :
        /\ outcome = "readfile" => \E i \in 1..Len(qfs) : Selected(qfs[i])
        /\ store' = IF outcome = "ok"
                    THEN [state |-> "ready", queries |-> newQueryStore(<<>>, qfs)]
                    ELSE [state |-> outcome, queries |-> <<>>]
    /\ UNCHANGED <<qfs, qconn, got, dbq, besides>>

\* ConnectPool: the Connector shares the store of the SQLReader
ConnectPool ==
    /\ store.state = "ready"
    /\ qconn = "none"
    /\ qconn' = "pool"
    /\ UNCHANGED <<qfs, store, got, dbq, besides>>

\* ConnectTx: the same around a transaction
ConnectTx ==
    /\ store.state = "ready"
    /\ qconn = "none"
    /\ qconn' = "tx"
    /\ UNCHANGED <<qfs, store, got, dbq, besides>>

\* a lookup that puts an empty text in the store for the name it misses
Lookup_Memo(op, n) ==
    /\ got' = [op |-> op, name |-> n, panic |-> Get(store.queries, n).panic,
               text |-> Get(store.queries, n).text]
    /\ store' = IF n \in DOMAIN store.queries THEN store
                ELSE [store EXCEPT !.queries = Put(@, n, <<>>)]

\* the lookup every operation starts with: qs.get(name) reads the map
Lookup(op, n) ==
    /\ got' = [op |-> op, name |-> n, panic |-> Get(store.queries, n).panic,
               text |-> Get(store.queries, n).text]
    /\ store' = store

GetSQL(n) ==
    /\ store.state = "ready"
    /\ Lookup("GetSQL", n)
    /\ dbq' = NoDb
    /\ UNCHANGED <<qfs, qconn, besides>>

\* l.db.Exec(ctx, query, args...): the statement fails or not
SendExec(text) ==
    {[sql |-> <<text>>, scanned |-> FALSE, err |-> ~ok] : ok \in BOOLEAN}

\* l.db.QueryRow(ctx, query, args...), then scanner(row)
SendQueryRow(text) ==
    {[sql |-> <<text>>, scanned |-> TRUE, err |-> ~ok] : ok \in BOOLEAN}

\* l.db.Query(ctx, query, args...); scanner(rows) when the query went through
SendQueryRows(text) ==
    {[sql |-> <<text>>, scanned |-> FALSE, err |-> TRUE]}
        \cup {[sql |-> <<text>>, scanned |-> TRUE, err |-> ~ok] : ok \in BOOLEAN}

\* a loader that recovers from the panic and goes on with the empty text
AfterGet_Recover(r, outcomes) == outcomes

\* query := l.querier.get(name) comes first: its panic ends the operation
AfterGet(r, outcomes) == IF r.panic THEN {NoDb} ELSE outcomes

\* queryLoader.exec, queryRow, queryRows behind the Connector methods: the
\* text found goes to the database, whose answer leaves the store alone
ConnExec(n) ==
    /\ store.state = "ready"
    /\ qconn # "none"
    /\ Lookup("Exec", n)
    /\ dbq' \in AfterGet(Get(store.queries, n), SendExec(Get(store.queries, n).text))
    /\ UNCHANGED <<qfs, qconn, besides>>

ConnQueryRow(n) ==
    /\ store.state = "ready"
    /\ qconn # "none"
    /\ Lookup("QueryRow", n)
    /\ dbq' \in AfterGet(Get(store.queries, n), SendQueryRow(Get(store.queries, n).text))
    /\ UNCHANGED <<qfs, qconn, besides>>

ConnQueryRows(n) ==
    /\ store.state = "ready"
    /\ qconn # "none"
    /\ Lookup("QueryRows", n)
    /\ dbq' \in AfterGet(Get(store.queries, n), SendQueryRows(Get(store.queries, n).text))
    /\ UNCHANGED <<qfs, qconn, besides>>

ConnExecuteJSONBQuery(n) ==
    /\ store.state = "ready"
    /\ qconn # "none"
    /\ Lookup("ExecuteJSONBQuery", n)
    /\ dbq' \in AfterGet(Get(store.queries, n), SendQueryRows(Get(store.queries, n).text))
    /\ UNCHANGED <<qfs, qconn, besides>>

NextNew == New

\* New alone, over the larger directories
SpecStore == InitNew /\ [][NextNew]_vars

NextLookups ==
    \/ New
    \/ ConnectPool
    \/ ConnectTx
    \/ \E n \in QueryNames :
        \/ GetSQL(n)
        \/ ConnExec(n)
        \/ ConnQueryRow(n)
        \/ ConnQueryRows(n)
        \/ ConnExecuteJSONBQuery(n)

\* New and the operations that read the store, over the smaller directories
SpecLookups == InitLookups /\ [][NextLookups]_vars


TypeOK ==
    /\ dir \in Dirs
    /\ committed.table \in BOOLEAN
    /\ txStatus \in [TxIds -> {"unused", "active", "failed", "committed", "rolledback"}]
    /\ readerMgr \in {Nil, Pool} \cup TxIds
    /\ call.result \in {"none", "ok", "err"}
    /\ Cardinality(OpenTx) <= 1
    /\ OpenTx = {} => work = committed


\* ------------------------------------------------------------ properties
InCall(op) == call.op = op /\ call.pc # "idle"

Finished(op) == call.op = op /\ call.pc = "done"

Steps(ops) == {i \in 1..Len(log) : log[i].op \in ops}

Failed(ops) == {i \in Steps(ops) : ~log[i].ok}

\* C1: when an up statement or a ledger insert fails during Connector.Migrate
\* on a pool-backed connector, the transaction the call began is rolled back
\* and never committed, and the committed ledger rows are those of before the
\* call, rows of migrations that had succeeded before the failure included.
C1_FailedBatchRolledBack ==
    (InCall("Migrate") /\ call.conn = Pool /\ Failed({"up", "insert"}) # {})
        => /\ committed.ledger = call.pre
           /\ txStatus[call.tx] # "committed"
           /\ Steps({"commit"}) = {}
           /\ call.pc = "done" => /\ txStatus[call.tx] = "rolledback"
                                  /\ call.result = "err"

C1_Witness ==
    /\ Finished("Migrate")
    /\ call.conn = Pool
    /\ Failed({"up", "insert"}) # {}
    /\ \E i \in Steps({"insert"}) : log[i].ok

\* C2: Migrate is idempotent: a Migrate that starts from the ledger a
\* successful Migrate over the same files left executes no up statement and
\* no ledger insert, leaves the ledger as it is, and returns success when its
\* handle is a transaction and no database call fails.
C2_MigrateIdempotent ==
    (Finished("Migrate") /\ call.entered /\ prev.op = "Migrate"
        /\ prev.result = "ok" /\ call.start = prev.end)
        => /\ Steps({"up", "insert"}) = {}
           /\ call.end = call.start
           /\ committed.ledger = call.pre
           /\ (IsTx(call.mgr) /\ Failed({"create", "select", "begin", "commit"}) = {})
                  => call.result = "ok"

C2_Witness ==
    /\ Finished("Migrate")
    /\ call.entered
    /\ prev.op = "Migrate"
    /\ prev.result = "ok"
    /\ prev.ups >= 2
    /\ call.start = prev.end
    /\ call.result = "ok"

\* what one Migrate call does between two statements: an insert follows the
\* successful up statement of the same migration at once, an up statement is
\* followed by nothing but its own insert, and the commit comes last
UpThenRecord ==
    /\ \A i \in Steps({"insert"}) :
        /\ i > 1
        /\ log[i - 1].op = "up"
        /\ log[i - 1].ok
        /\ log[i - 1].ver = log[i].ver
        /\ log[i - 1].name = log[i].name
    /\ \A i \in Steps({"up"}) :
        (i < Len(log) /\ log[i].ok) => log[i + 1].op = "insert"
    /\ \A i \in Steps({"commit"}) :
        /\ i = Len(log)
        /\ log[i - 1].op # "up"
        /\ Failed({"up", "insert"}) = {}

\* C3 as stated: within one Migrate call the up statements run in strictly
\* ascending version order, each followed at once by the ledger insert of the
\* same (version, name), and the commit comes after the last insert.
C3_StrictlyAscending ==
    InCall("Migrate")
        => /\ UpThenRecord
           /\ \A i, j \in Steps({"up"}) : i < j => log[i].ver < log[j].ver

\* C3 amended: the up statements run in ascending version order, strictly so
\* between migrations of different versions; two files that share a version
\* are both processed, one after the other.
C3_Ascending ==
    InCall("Migrate")
        => /\ UpThenRecord
           /\ \A i, j \in Steps({"up"}) : i < j => log[i].ver <= log[j].ver

C3_Witness ==
    /\ Finished("Migrate")
    /\ call.result = "ok"
    /\ Cardinality(Steps({"up"})) = 3
    /\ Cardinality(Steps({"insert"})) = 3
    /\ Steps({"commit"}) # {}

\* C4: whenever Migrate returns success, every loaded migration's version is
\* in the ledger as the transaction sees it.
C4_SuccessAppliesAll ==
    (InCall("Migrate") /\ call.eres = "ok")
        => \A i \in 1..Len(call.migrations) :
               call.migrations[i].Version \in Versions(call.end)

C4_Witness ==
    /\ InCall("Migrate")
    /\ call.eres = "ok"
    /\ Cardinality(Steps({"insert"})) >= 2
    /\ Cardinality(Versions(call.end)) >= 3


\* the engine was entered on a handle that is no active transaction: the
\* pool, or a transaction that was over or aborted before the call
OutsideTx == call.entered /\ ~call.active

Done(ops) == {i \in Steps(ops) : log[i].ok}

\* C5 as stated: the engine's Migrate on a handle that is not an active
\* transaction returns an error and has executed no statement that changes
\* the database: no table creation, no up statement, no ledger insert.
C5_NoStatementOutsideTx ==
    (InCall("Migrate") /\ OutsideTx)
        => /\ Done({"create", "up", "insert"}) = {}
           /\ call.eres # "ok"
           /\ call.pc = "done" => call.result = "err"

\* C5 amended: the engine's Migrate on a handle that is not an active
\* transaction returns an error and has executed no up statement and no
\* ledger insert, so the ledger rows are unchanged; the one statement it can
\* have executed on the database is the idempotent creation of the ledger
\* table, which precedes the check of the handle.
C5_NoMigrationOutsideTx ==
    (InCall("Migrate") /\ OutsideTx)
        => /\ Steps({"up", "insert"}) = {}
           /\ \A i \in Done({"create", "select"}) : log[i].h = call.mgr
           /\ committed.ledger = call.pre
           /\ View(call.mgr).ledger = call.start
           /\ call.eres # "ok"
           /\ call.pc = "done" => call.result = "err"

C5_Witness ==
    /\ Finished("Migrate")
    /\ call.entered
    /\ call.mgr = Pool
    /\ Done({"create"}) # {}
    /\ Done({"select"}) # {}
    /\ call.result = "err"
    /\ Len(call.migrations) >= 2
    /\ call.applied = {}

\* C6: when an up statement fails, no ledger row is inserted for it, no later
\* up statement runs, it is not retried and Migrate returns an error; when a
\* ledger insert fails, no later migration is attempted and Migrate returns
\* an error.
C6_FailureStopsBatch ==
    InCall("Migrate")
        => \A i \in Failed({"up", "insert"}) :
            /\ \A j \in Steps({"up", "insert"}) : j <= i
            /\ call.eres = "err"
            /\ log[i].op = "up" => Row(log[i].ver, log[i].name) \notin call.end
            /\ call.pc = "done" => call.result = "err"

C6_Witness ==
    /\ Finished("Migrate")
    /\ Failed({"up"}) # {}
    /\ Done({"insert"}) # {}
    /\ Cardinality(Steps({"up"})) < Len(call.migrations)
    /\ call.applied = {}

\* the greatest element of a non-empty set of versions
Highest(S) == CHOOSE v \in S : \A w \in S : w <= v

\* C7: one successful Rollback removes at most one ledger row and executes at
\* most one down statement; the row it removes is the one with the highest
\* version in the ledger at the time of the call, and every other row is left
\* as it was.
C7_RemovesHighestOnly ==
    (InCall("Rollback") /\ call.eres = "ok")
        => /\ call.end \subseteq call.start
           /\ Cardinality(call.start \ call.end) <= 1
           /\ Cardinality(Steps({"down"})) <= 1
           /\ \A r \in call.start \ call.end :
                  r.version = Highest(Versions(call.start))

\* the loaded definitions of version v
Definitions(v) ==
    {m \in {Collect(dir)[i] : i \in 1..Len(Collect(dir))} : m.Version = v}

\* C8: round trip: for every known migration V, applying V with Migrate and
\* then calling Rollback once leaves the ledger without V and otherwise equal
\* to the ledger before V was applied, and the statement that Rollback
\* executed is V's down statement.
C8_RoundTrip ==
    (InCall("Rollback") /\ call.eres = "ok" /\ prev.op = "Migrate"
        /\ prev.result = "ok" /\ prev.ups = 1 /\ call.start = prev.end)
        => \A v \in prev.upvers :
            /\ v \notin Versions(call.end)
            /\ call.end = prev.start
            /\ \A i \in Steps({"down"}) :
                   log[i].sql \in {m.DownSQL : m \in Definitions(v)}

\* C9: Rollback selects the highest version that is both applied and loaded;
\* when the highest applied version has no loaded definition, it selects the
\* highest applied version that has one.
C9_SelectsHighestKnownApplied ==
    (InCall("Rollback") /\ call.pc \in {"r_down", "r_del"})
        => LET known == {v \in Versions(call.applied) : Definitions(v) # {}}
           IN known # {} => call.last \in Definitions(Highest(known))

\* C10: when the down statement fails, the ledger row of the selected
\* migration is not deleted, no further statement is executed and Rollback
\* returns an error.
C10_FailedDownKeepsRecord ==
    (InCall("Rollback") /\ Failed({"down"}) # {})
        => /\ Steps({"delete"}) = {}
           /\ \A i \in Failed({"down"}) :
                  \A j \in 1..Len(log) : j > i => log[j].op = "rollback"
           /\ call.end = call.start
           /\ committed.ledger = call.pre
           /\ call.eres = "err"
           /\ call.pc = "done" => call.result = "err"

C10_Witness ==
    /\ Finished("Rollback")
    /\ Failed({"down"}) # {}
    /\ \E r \in call.start : r.version = call.last.Version
    /\ call.last.DownSQL # <<>>


\* C11: the engine's Rollback on a non-empty ledger and a handle that is not
\* an active transaction returns an error, and has executed no down statement
\* and no ledger delete: the ledger is as it was.
C11_NoRollbackOutsideTx ==
    (InCall("Rollback") /\ OutsideTx /\ call.start # {})
        => /\ Steps({"down", "delete"}) = {}
           /\ committed.ledger = call.pre
           /\ View(call.mgr).ledger = call.start
           /\ call.eres # "ok"
           /\ call.pc = "done" => call.result = "err"

C11_Witness ==
    /\ Finished("Rollback")
    /\ call.entered
    /\ call.mgr = Pool
    /\ call.applied # {}
    /\ call.applied = call.start
    /\ Failed({"select"}) = {}
    /\ ~LoadMigrations(dir).err
    /\ call.result = "err"

\* C12: Rollback that reads an empty ledger returns success and executes no
\* down statement and no ledger delete, on a transaction and on a handle that
\* is not a transaction alike; the Connector's call succeeds with it unless
\* its commit fails.
C12_EmptyLedgerNoOp ==
    (InCall("Rollback") /\ call.entered /\ call.start = {})
        => /\ Steps({"down", "delete"}) = {}
           /\ Done({"select"}) # {} => (call.eres = "ok" /\ call.end = {})
           /\ committed.ledger = call.pre
           /\ (call.pc = "done" /\ Done({"select"}) # {}
                  /\ Failed({"commit"}) = {}) => call.result = "ok"

C12_Witness ==
    /\ Finished("Rollback")
    /\ call.entered
    /\ call.mgr = Pool
    /\ call.start = {}
    /\ Done({"select"}) # {}
    /\ call.result = "ok"

\* the versions of the migrations LoadMigrations returns for the directory
KnownVersions ==
    IF LoadFails(dir) THEN {}
    ELSE {Collect(dir)[i].Version : i \in 1..Len(Collect(dir))}

NoVersionTwice(ledger) == Cardinality(Versions(ledger)) = Cardinality(ledger)

\* C13: while the ledger is changed by Migrate and Rollback only, from an
\* empty ledger and over a fixed set of files, the ledger versions are
\* versions of known migrations and no version is in the ledger twice, in the
\* committed state and inside an open transaction.
C13_LedgerWithinKnown ==
    nexternal = 0
        => /\ Versions(committed.ledger) \subseteq KnownVersions
           /\ Versions(work.ledger) \subseteq KnownVersions
           /\ NoVersionTwice(committed.ledger)
           /\ NoVersionTwice(work.ledger)

C13_Witness ==
    /\ nexternal = 0
    /\ Finished("Rollback")
    /\ call.result = "ok"
    /\ prev.op = "Migrate"
    /\ prev.result = "ok"
    /\ call.start = prev.end
    /\ committed.ledger # {}
    /\ committed.ledger # call.start

\* the versions whose up statement and ledger row p has committed
CommittedBy(p) ==
    IF sess[p].status = "committed" THEN {u.ver : u \in sess[p].ups} ELSE {}

\* C14: when two Connector.Migrate calls run at the same time, each in its
\* own transaction, no version is applied twice in the committed state: the
\* committed effects hold one up statement per version, each with its one
\* ledger row, and when one call has committed a version whose up statement
\* the other call executed too, the other call does not commit: it fails and
\* its transaction is rolled back.
C14_NoDoubleApply ==
    /\ NoVersionTwice(cdb.ledger)
    /\ \A u, w \in cdb.ups : u.ver = w.ver => u = w
    /\ \A u \in cdb.ups : Row(u.ver, u.name) \in cdb.ledger
    /\ \A r \in cdb.ledger : \E u \in cdb.ups : r = Row(u.ver, u.name)
    /\ \A p \in Procs :
        \A v \in CommittedBy(p) \cap proc[Other(p)].tried :
            /\ sess[Other(p)].status # "committed"
            /\ proc[Other(p)].result # "ok"
            /\ proc[Other(p)].pc = "done"
                   => /\ proc[Other(p)].result = "err"
                      /\ sess[Other(p)].status = "rolledback"

C14_Witness ==
    \E p \in Procs :
        /\ proc[p].pc = "done"
        /\ proc[p].result = "ok"
        /\ Cardinality(CommittedBy(p)) = 3
        /\ proc[Other(p)].pc = "done"
        /\ proc[Other(p)].why = "unique"
        /\ proc[Other(p)].tried \cap CommittedBy(p) # {}
        /\ sess[Other(p)].status = "rolledback"

\* C15: every Migrate and Rollback works from the ledger as its handle sees
\* it when the call is made, rows recorded or removed by hand since the
\* previous call included: Migrate executes no up statement of a version the
\* ledger already held, and when it succeeds it has applied exactly the known
\* versions the ledger did not hold.
C15_LedgerReadEachCall ==
    ((InCall("Migrate") \/ InCall("Rollback")) /\ call.entered)
        => /\ call.pc \in {"m_tx", "m_up", "m_ins", "r_load", "r_down", "r_del"}
                  => call.applied = call.start
           /\ \A i \in Steps({"up"}) : log[i].ver \notin Versions(call.start)
           /\ (call.op = "Migrate" /\ call.eres = "ok")
                  => /\ {log[i].ver : i \in Steps({"up"})}
                            = KnownVersions \ Versions(call.start)
                     /\ Versions(call.end) = Versions(call.start) \cup KnownVersions

C15_Witness ==
    /\ Finished("Migrate")
    /\ call.result = "ok"
    /\ nexternal = 1
    /\ call.start # prev.end
    /\ \E r \in call.start : r.name = <<"h">> /\ Definitions(r.version) # {}
    /\ Cardinality(Steps({"up"})) = 2

\* C16: Migrate and Rollback on a connector made with ConnectTx(tx) run the
\* engine on tx itself, whatever calls were made before through other
\* connectors of the same SQLReader: every statement of the call goes to tx.
C16_OnOwnTransaction ==
    ((InCall("Migrate") \/ InCall("Rollback")) /\ IsTx(call.conn))
        => /\ call.entered => call.mgr = call.conn
           /\ \A i \in 1..Len(log) : log[i].h = call.conn

\* C17: every Connector.Migrate and Connector.Rollback runs the idempotent
\* creation of the ledger table before it reads the ledger.
C17_TableEnsuredBeforeRead ==
    (InCall("Migrate") \/ InCall("Rollback"))
        => \A i \in Steps({"select"}) :
               \E j \in Done({"create"}) : j < i


\* --------------------------------------------- properties of LoadMigrations
Count(s, x) == Cardinality({i \in 1..Len(s) : s[i] = x})

\* the position of the first x in s
First(s, x) == CHOOSE i \in 1..Len(s) : s[i] = x /\ \A j \in 1..(i - 1) : s[j] # x

Before(s, x) == SubSeq(s, 1, First(s, x) - 1)

After(s, x) == SubSeq(s, First(s, x) + 1, Len(s))

\* s without the white space at its ends
Stripped(s) ==
    LET inked == {i \in 1..Len(s) : s[i] # " "}
    IN IF inked = {} THEN <<>>
       ELSE SubSeq(s, CHOOSE i \in inked : \A j \in inked : i <= j,
                      CHOOSE i \in inked : \A j \in inked : i >= j)

\* the entries of the listing LoadMigrations reads as migration files
MigrationEntries ==
    {i \in 1..Len(loaded.input) :
        ~loaded.input[i].isDir /\ loaded.input[i].ext = ".sql"}

\* an integer in decimal: an optional sign and digits, nothing else
IsInteger(seg) ==
    LET body == IF Len(seg) > 0 /\ seg[1] \in {"+", "-"} THEN Tail(seg) ELSE seg
    IN Len(body) > 0 /\ \A i \in 1..Len(body) : body[i] \in Digits

IntegerValue(seg) ==
    IF seg[1] = "-" THEN 0 - DecVal(Tail(seg), 0)
    ELSE IF seg[1] = "+" THEN DecVal(Tail(seg), 0)
    ELSE DecVal(seg, 0)

FirstSegment(name) == IF Count(name, "_") = 0 THEN name ELSE Before(name, "_")

\* <version>_<name>.sql with a non-negative version and one "-- Down"
WellFormed(e) ==
    /\ ~e.isDir
    /\ e.ext = ".sql"
    /\ Count(e.name, "_") >= 1
    /\ Len(FirstSegment(e.name)) > 0
    /\ \A i \in 1..Len(FirstSegment(e.name)) : FirstSegment(e.name)[i] \in Digits
    /\ Count(e.content, "-- Down") = 1

AllWellFormed == \A i \in 1..Len(loaded.input) : WellFormed(loaded.input[i])

\* C18 as stated: for every set of well-formed migration files the list
\* LoadMigrations returns is sorted strictly ascending by version.
C18_StrictlySorted ==
    (loaded.done /\ AllWellFormed)
        => /\ ~loaded.err
           /\ \A i \in 1..(Len(loaded.result) - 1) :
                  loaded.result[i].Version < loaded.result[i + 1].Version

\* C18 amended: the list LoadMigrations returns holds one migration for each
\* file and is sorted ascending by version, strictly between files of
\* different versions; files that share a version are all returned, next to
\* each other.
C18_SortedAscending ==
    (loaded.done /\ ~loaded.err)
        => /\ Len(loaded.result) = Cardinality(MigrationEntries)
           /\ \A m \in {Collect(dir)[i] : i \in 1..Len(Collect(dir))} :
                  Count(loaded.result, m) = Count(Collect(dir), m)
           /\ \A i, j \in 1..Len(loaded.result) :
                  i < j => loaded.result[i].Version <= loaded.result[j].Version
           /\ AllWellFormed \/ loaded.input = <<>> => ~loaded.err

C18_Witness ==
    /\ loaded.done
    /\ ~loaded.err
    /\ AllWellFormed
    /\ Len(loaded.result) = 2
    /\ loaded.result[1].Version < loaded.result[2].Version
    /\ Collect(dir)[1].Version > Collect(dir)[2].Version

\* C19: LoadMigrations fails and returns no migration when the content of a
\* migration file holds the marker "-- Down" not at all or more than once;
\* when it succeeds, each file gives a migration whose up statement is the
\* text before the marker and whose down statement is the text after it,
\* both without the white space at their ends.
C19_SeparatorExactlyOnce ==
    loaded.done
        => /\ (\E i \in MigrationEntries :
                   Count(loaded.input[i].content, "-- Down") # 1)
                  => (loaded.err /\ loaded.result = <<>>)
           /\ ~loaded.err
                  => \A i \in MigrationEntries :
                      \E k \in 1..Len(loaded.result) :
                          /\ loaded.result[k].UpSQL
                                = Stripped(Before(loaded.input[i].content, "-- Down"))
                          /\ loaded.result[k].DownSQL
                                = Stripped(After(loaded.input[i].content, "-- Down"))

C19_Witness ==
    /\ loaded.done
    /\ ~loaded.err
    /\ Len(loaded.result) = 2
    /\ \E k \in 1..2 : /\ loaded.result[k].UpSQL = <<"u4">>
                       /\ loaded.result[k].DownSQL = <<"d4">>
    /\ \A i \in MigrationEntries : loaded.input[i].content[1] = " "

\* C20: LoadMigrations fails when the name of a migration file has fewer than
\* two segments between "_" or a first segment that is not an integer, such
\* as "1x"; when it succeeds, each file gives a migration whose version is
\* the value of the first segment and whose name is the rest of the name.
C20_NameFormat ==
    loaded.done
        => /\ (\E i \in MigrationEntries :
                   \/ Count(loaded.input[i].name, "_") = 0
                   \/ ~IsInteger(FirstSegment(loaded.input[i].name)))
                  => loaded.err
           /\ ~loaded.err
                  => \A i \in MigrationEntries :
                      \E k \in 1..Len(loaded.result) :
                          /\ loaded.result[k].Version
                                = IntegerValue(FirstSegment(loaded.input[i].name))
                          /\ loaded.result[k].Name = After(loaded.input[i].name, "_")


\* C21: every migration LoadMigrations returns has a non-negative version;
\* a listing with a file whose first segment is a negative integer, such as
\* -1_f.sql, is rejected.
C21_NonNegativeVersions ==
    loaded.done
        => /\ (\E i \in MigrationEntries :
                   /\ IsInteger(FirstSegment(loaded.input[i].name))
                   /\ IntegerValue(FirstSegment(loaded.input[i].name)) < 0)
                  => loaded.err
           /\ \A k \in 1..Len(loaded.result) : loaded.result[k].Version >= 0

\* the versions that two loaded definitions share and the ledger of the
\* call does not hold
DupPending ==
    {call.migrations[i].Version : i \in
        {k \in 1..Len(call.migrations) :
            /\ call.migrations[k].Version \notin Versions(call.start)
            /\ \E j \in 1..Len(call.migrations) :
                   j # k /\ call.migrations[j].Version = call.migrations[k].Version}}

UpsOf(v) == {i \in Steps({"up"}) : log[i].ver = v}

\* the definition of version v that the directory lists last
LastListed(v) ==
    LET c == Collect(dir)
        at == {i \in 1..Len(c) : c[i].Version = v}
    IN c[CHOOSE i \in at : \A j \in at : j <= i]

\* C22 as stated: when two files share a pending version, Migrate applies one
\* definition of it only, the one listed last.
C22_LastWins ==
    InCall("Migrate")
        => \A v \in DupPending :
               /\ Cardinality(UpsOf(v)) <= 1
               /\ \A i \in UpsOf(v) : log[i].name = LastListed(v).Name

\* C22 amended: when two files share a pending version, Migrate never
\* succeeds: it records the definition it applies first, and the ledger
\* insert that follows the up statement of the second fails on the primary
\* key, so the call returns an error and a pool connector commits nothing.
C22_DuplicateVersionFails ==
    (InCall("Migrate") /\ DupPending # {})
        => /\ call.eres # "ok"
           /\ call.pc = "done" => call.result = "err"
           /\ call.conn = Pool => committed.ledger = call.pre
           /\ \A v \in DupPending :
               /\ Cardinality({i \in Done({"insert"}) : log[i].ver = v}) <= 1
               /\ \A i, j \in UpsOf(v) :
                      (i < j /\ log[j].ok /\ j < Len(log))
                          => log[j + 1].op = "insert" /\ ~log[j + 1].ok

C22_Witness ==
    /\ Finished("Migrate")
    /\ DupPending # {}
    /\ Cardinality(Done({"up"})) = 2
    /\ Cardinality(Done({"insert"})) = 1
    /\ Cardinality(Failed({"insert"})) = 1
    /\ call.result = "err"

\* C27: Initialize is idempotent: run on a database that has the ledger
\* table, as often as one likes, it leaves the table and the ledger rows as
\* they are, and it succeeds whenever the database serves the statement.
C27_InitializeIdempotent ==
    [][call.pc \in {"c_init", "m_init"}
          => /\ committed'.ledger = committed.ledger
             /\ work'.ledger = work.ledger
             /\ committed.table => committed'.table
             /\ work.table => work'.table
             /\ (Len(log') > 0 /\ log'[Len(log')].ok)
                    => /\ call'.result # "err"
                       /\ call'.eres # "err"
                       /\ \A h \in TxIds \cup {Pool} :
                              h = (IF call.pc = "c_init" THEN call.conn
                                   ELSE call.mgr) => View(h)'.table]_vars

C27_Witness ==
    /\ Finished("Initiate")
    /\ call.result = "ok"
    /\ prev.op = "Initiate"
    /\ prev.result = "ok"
    /\ call.pre # {}
    /\ committed.ledger = call.pre

\* C29: Connector.Migrate and Connector.Rollback on a connector that wraps a
\* transaction of the caller begin no transaction and neither commit nor
\* roll back the caller's: it is still open when the call returns, after a
\* success and after a failure.
C29_CallerTransactionLeftOpen ==
    ((InCall("Migrate") \/ InCall("Rollback")) /\ IsTx(call.conn))
        => /\ Steps({"begin", "commit", "rollback"}) = {}
           /\ txStatus[call.conn] \in {"active", "failed"}
           /\ txOwner[call.conn] = "user"

C29_Witness ==
    /\ Finished("Migrate")
    /\ IsTx(call.conn)
    /\ call.mgr = call.conn
    /\ Failed({"insert"}) # {}
    /\ Done({"insert"}) # {}
    /\ call.result = "err"
    /\ work.ledger # committed.ledger

\* C30: the up statements one Migrate executes are those of the loaded
\* migrations whose version the ledger read at the start of the call does
\* not hold, each once: none of an applied version, and when the call
\* succeeds all of them, versions below the highest applied one included.
C30_AppliesExactlyPending ==
    (InCall("Migrate") /\ call.entered)
        => /\ \A i \in Steps({"up"}) :
               /\ log[i].ver \notin Versions(call.start)
               /\ \E k \in 1..Len(call.migrations) :
                      /\ call.migrations[k].Version = log[i].ver
                      /\ call.migrations[k].Name = log[i].name
                      /\ call.migrations[k].UpSQL = log[i].sql
               /\ \A j \in Steps({"up"}) :
                      (log[j].ver = log[i].ver /\ log[j].name = log[i].name)
                          => j = i
           /\ call.eres = "ok"
                  => \A k \in 1..Len(call.migrations) :
                         call.migrations[k].Version \notin Versions(call.start)
                             => \E i \in Done({"up"}) :
                                    /\ log[i].ver = call.migrations[k].Version
                                    /\ log[i].sql = call.migrations[k].UpSQL

C30_Witness ==
    /\ Finished("Migrate")
    /\ call.result = "ok"
    /\ \E r \in call.start :
           \E i \in Done({"up"}) : log[i].ver < r.version
    /\ \E r \in call.start : Definitions(r.version) # {}


\* ----------------------------------------------- properties of the store
RECURSIVE AllBlocks(_)
\* the blocks of the files that are read, in the order they are read
AllBlocks(entries) ==
    IF Len(entries) = 0 THEN <<>>
    ELSE (IF Selected(entries[1]) THEN SplitBlank(entries[1].content) ELSE <<>>)
             \o AllBlocks(Tail(entries))

IsBlank(l) == TrimSpace(l) = <<>>

\* the line has the form -- name: <identifier>
IsNameLine(l) == HasPrefix(TrimSpace(l), NamePrefix) /\ Len(Fields(l)) >= 3

NameIn(l) == Fields(l)[3]

\* the white-space-trimmed lines that follow the first one
BodyAfter(ls) == TrimSpace(JoinLines(Tail(ls)))

\* C23: a lookup of a name the store does not hold always panics and returns
\* no text, neither a default nor an empty one; a lookup of a name it holds
\* returns the stored text and does not fail.
C23_UnknownNamePanics ==
    got.op # "none"
        => IF got.name \in DOMAIN store.queries
           THEN ~got.panic /\ got.text = store.queries[got.name]
           ELSE got.panic

C23_Witness ==
    /\ got.op = "GetSQL"
    /\ got.name = <<"b">>
    /\ got.panic
    /\ DOMAIN store.queries = {<<"a">>}
    /\ store.queries[<<"a">>] = <<"s1">>

\* a name line as documented, a blank after the colon, followed by lines
\* of SQL, none of them blank
ValidBlock(ls) ==
    /\ Len(ls) >= 2
    /\ IsNameLine(ls[1])
    /\ HasPrefix(TrimSpace(ls[1]), NamePrefix \o <<" ">>)
    /\ \A i \in 2..Len(ls) : ~IsBlank(ls[i])

\* where the blank line stands in a text of two valid blocks of two names
TwoBlocksAt(ls) ==
    {k \in 3..(Len(ls) - 2) :
        /\ ls[k] = <<>>
        /\ ValidBlock(SubSeq(ls, 1, k - 1))
        /\ ValidBlock(SubSeq(ls, k + 1, Len(ls)))
        /\ NameIn(ls[1]) # NameIn(ls[k + 1])}

\* C24: after loading a text of two valid blocks with the names a and b,
\* one blank line between them, the store holds a and b and nothing else,
\* and get returns for each the trimmed lines that follow its name line.
C24_TwoBlocksLoaded ==
    (store.state = "ready" /\ Len(qfs) = 1 /\ Selected(qfs[1]))
        => LET ls == Split(qfs[1].content, NL)
           IN \A k \in TwoBlocksAt(ls) :
                  LET a == NameIn(ls[1])
                      b == NameIn(ls[k + 1])
                  IN /\ DOMAIN store.queries = {a, b}
                     /\ Get(store.queries, a)
                            = [panic |-> FALSE,
                               text |-> BodyAfter(SubSeq(ls, 1, k - 1))]
                     /\ Get(store.queries, b)
                            = [panic |-> FALSE,
                               text |-> BodyAfter(SubSeq(ls, k + 1, Len(ls)))]

C24_Witness ==
    /\ store.state = "ready"
    /\ Len(qfs) = 1
    /\ TwoBlocksAt(Split(qfs[1].content, NL)) # {}
    /\ DOMAIN store.queries = {<<"a">>, <<"b">>}
    /\ store.queries[<<"a">>] = <<"s1">>
    /\ store.queries[<<"b">>] = <<"s2">>

\* the blocks the loop of parseQueries stores
Stores(block) == DOMAIN ParseBlock(<<>>, block) # {}

NameStored(block) == CHOOSE n \in DOMAIN ParseBlock(<<>>, block) : TRUE

TextStored(block) == ParseBlock(<<>>, block)[NameStored(block)]

\* C25: when several loaded blocks, of one file or of several, have the same
\* name, the store maps the name to the text of the one loaded last; the
\* names of the store are those of the loaded blocks, each once.
C25_LastWriteWins ==
    store.state = "ready"
        => LET bs == AllBlocks(qfs)
               L == {i \in 1..Len(bs) : Stores(bs[i])}
           IN /\ DOMAIN store.queries = {NameStored(bs[i]) : i \in L}
              /\ \A i \in L :
                     (\A j \in L : j > i => NameStored(bs[j]) # NameStored(bs[i]))
                         => store.queries[NameStored(bs[i])] = TextStored(bs[i])

C25_Witness ==
    /\ store.state = "ready"
    /\ Len(qfs) = 2
    /\ Selected(qfs[1]) /\ Selected(qfs[2])
    /\ <<"a">> \in DOMAIN parseQueries(<<>>, qfs[1].content)
    /\ <<"a">> \in DOMAIN parseQueries(<<>>, qfs[2].content)
    /\ parseQueries(<<>>, qfs[1].content)[<<"a">>]
           # parseQueries(<<>>, qfs[2].content)[<<"a">>]
    /\ store.queries[<<"a">>] = parseQueries(<<>>, qfs[2].content)[<<"a">>]

\* the first line of the block that is not blank, the empty line if all are
FirstNonBlank(block) ==
    LET ls == Split(block, NL)
        at == {i \in 1..Len(ls) : ~IsBlank(ls[i])}
    IN IF at = {} THEN <<>>
       ELSE ls[CHOOSE i \in at : \A j \in at : i <= j]

\* C26: a block is loaded if and only if its first non-blank line has the
\* form -- name: <identifier>, also when blank lines stand before that line
\* in the block and when no line of SQL follows it; the store holds the
\* names of exactly these blocks.
C26_LoadedIffNamed ==
    store.state = "ready"
        => LET bs == AllBlocks(qfs)
               named == {i \in 1..Len(bs) : IsNameLine(FirstNonBlank(bs[i]))}
           IN /\ \A i \in 1..Len(bs) : Stores(bs[i]) <=> i \in named
              /\ DOMAIN store.queries = {NameIn(FirstNonBlank(bs[i])) : i \in named}

\* C28: once New has returned, no operation changes the store: the names
\* and the text of each name stay what was loaded.
C28_StoreUnchangedAfterNew ==
    [][store.state = "ready" => store' = store]_vars

C28_Witness ==
    /\ got.op = "ExecuteJSONBQuery"
    /\ got.name = <<"c">>
    /\ got.panic
    /\ qconn = "tx"
    /\ DOMAIN store.queries = {<<"a">>}


\* ------------------------------------- further properties of the engine
\* C31: whenever Rollback deletes the ledger row of a version V, the
\* statement it executed just before is the down statement of the loaded
\* migration of version V, never an empty statement or the down statement of
\* another version.
C31_DeleteFollowsOwnDown ==
    InCall("Rollback")
        => \A i \in Done({"delete"}) :
               log[i].ver \in Versions(call.start)
                   => /\ i > 1
                      /\ log[i - 1].op = "down"
                      /\ log[i - 1].ver = log[i].ver
                      /\ \E m \in Definitions(log[i].ver) :
                             log[i - 1].sql = m.DownSQL

\* C32: Rollback is deterministic: for one ledger and one list of loaded
\* migrations, the migration it selects is the same in whatever order the
\* range over the applied map visits the versions.
C32_RollbackDeterministic ==
    (InCall("Rollback") /\ call.pc \in {"r_down", "r_del"})
        => \A ord \in RangeOrders(Versions(call.applied)) :
               SelectLast(ord, call.migrations, 0, ZeroMigration) = call.last

Ends == Steps({"commit", "rollback"})

\* C33: the transaction that Connector.Migrate or Connector.Rollback begins
\* on a pool connector is ended once, and before the call returns: by a
\* commit if and only if the engine returned success, by a rollback
\* otherwise; the call returns an error whenever the engine failed or the
\* commit failed.
C33_TransactionEndedOnce ==
    ((InCall("Migrate") \/ InCall("Rollback")) /\ call.wrap)
        => /\ txOwner[call.tx] = "lib"
           /\ call.pc # "done"
                  => Ends = {} /\ txStatus[call.tx] \in {"active", "failed"}
           /\ call.pc = "done"
                  => /\ Cardinality(Ends) = 1
                     /\ Ends = {Len(log)}
                     /\ Steps({"commit"}) # {} <=> call.eres = "ok"
                     /\ Steps({"rollback"}) # {} <=> call.eres = "err"
                     /\ txStatus[call.tx] \in {"committed", "rolledback"}
                     /\ txStatus[call.tx] = "committed" <=> Done({"commit"}) # {}
                     /\ call.result = "ok"
                            <=> (call.eres = "ok" /\ Failed({"commit"}) = {})

C33_Witness ==
    /\ Finished("Rollback")
    /\ call.wrap
    /\ call.eres = "ok"
    /\ Done({"delete"}) # {}
    /\ Failed({"commit"}) # {}
    /\ call.result = "err"
    /\ committed.ledger = call.pre

\* S holds no version but known ones and, with a version, every lower one
IsPrefix(S) ==
    /\ S \subseteq KnownVersions
    /\ \A v \in S : \A w \in KnownVersions : w < v => w \in S

\* C34: with migration files of distinct positive versions and a ledger
\* written by Migrate and Rollback alone, the versions of the ledger are at
\* all times the lowest known ones, without a gap, and Rollback calls that
\* follow one another execute the down statements in descending order of
\* version.
C34_LedgerIsPrefix ==
    (dir = DirOrdered /\ nexternal = 0)
        => /\ IsPrefix(Versions(committed.ledger))
           /\ IsPrefix(Versions(work.ledger))
           /\ InCall("Rollback")
                  => \A i \in Steps({"down"}) :
                         /\ log[i].ver = Highest(Versions(call.start))
                         /\ (prev.op = "Rollback" /\ prev.result = "ok"
                                 /\ call.start = prev.end)
                                => \A r \in prev.start \ prev.end :
                                       log[i].ver < r.version

C34_Witness ==
    /\ dir = DirOrdered
    /\ nexternal = 0
    /\ Finished("Rollback")
    /\ call.result = "ok"
    /\ prev.op = "Rollback"
    /\ prev.result = "ok"
    /\ call.conn = Pool
    /\ Versions(prev.start) = {1, 2, 10}
    /\ Versions(call.start) = {1, 2}
    /\ Versions(committed.ledger) = {1}

\* C35: on a ledger that holds exactly the known versions, a successful
\* Rollback followed by a successful Migrate executes one up statement, that
\* of the version the Rollback removed, and gives the ledger the versions it
\* had before the Rollback.
C35_RollbackThenMigrate ==
    (InCall("Migrate") /\ call.eres = "ok" /\ prev.op = "Rollback"
        /\ prev.result = "ok" /\ call.start = prev.end
        /\ Versions(prev.start) = KnownVersions /\ KnownVersions # {})
        => /\ Cardinality(Steps({"up"})) = 1
           /\ \A i \in Steps({"up"}) :
                  /\ log[i].ok
                  /\ log[i].ver \in Versions(prev.start) \ Versions(prev.end)
           /\ Versions(call.end) = Versions(prev.start)

C35_Witness ==
    /\ Finished("Migrate")
    /\ call.result = "ok"
    /\ prev.op = "Rollback"
    /\ prev.result = "ok"
    /\ call.start = prev.end
    /\ call.conn = Pool
    /\ Versions(prev.start) = {1, 2, 10}
    /\ KnownVersions = {1, 2, 10}
    /\ Versions(prev.end) = {1, 2}
    /\ Versions(committed.ledger) = {1, 2, 10}

\* the directory holds a migration file that LoadMigrations cannot take
Malformed ==
    \E i \in 1..Len(dir) :
        /\ IsMigrationFile(dir[i])
        /\ \/ Len(dir[i].parts) < 2
           \/ ~IsInteger(dir[i].parts[1])
           \/ Len(dir[i].sections) # 2

Changes == Steps({"up", "down", "insert", "delete"})

\* C36: when loading the migration files fails or reading the ledger fails,
\* Migrate and Rollback return an error and have executed no up statement,
\* no down statement, no ledger insert and no ledger delete; one malformed
\* file in the directory blocks the well-formed ones too.
C36_LoadOrReadFailureStops ==
    (InCall("Migrate") \/ InCall("Rollback"))
        => /\ Malformed
               => /\ Changes = {}
                  /\ (call.op = "Migrate" /\ call.pc = "done")
                         => call.result = "err"
                  /\ (call.op = "Rollback" /\ call.pc = "done"
                          /\ Done({"select"}) # {} /\ call.start # {})
                         => call.result = "err"
           /\ Failed({"select"}) # {}
               => /\ Changes = {}
                  /\ call.eres = "err"
                  /\ call.pc = "done" => call.result = "err"

C36_Witness ==
    /\ Finished("Rollback")
    /\ Malformed
    /\ \E i \in 1..Len(dir) : ParseFile(dir[i]).ok /\ ParseFile(dir[i]).mig.Version = 1
    /\ Versions(call.start) = {1}
    /\ Done({"select"}) # {}
    /\ call.result = "err"


\* ------------------------------------- further properties of the store
\* the first white-space-delimited token after the colon of a name line
NameAfterColon(l) ==
    LET t == TrimSpace(l)
    IN Fields(SubSeq(t, Len(NamePrefix) + 1, Len(t)))[1]

\* C38: a block is stored under the first white-space-delimited token that
\* follows the colon of its name line: -- name:a b is stored under a.
C38_NameIsFirstTokenAfterColon ==
    store.state = "ready"
        => LET bs == AllBlocks(qfs)
           IN \A i \in 1..Len(bs) :
                  Stores(bs[i])
                      => NameStored(bs[i]) = NameAfterColon(Split(bs[i], NL)[1])


LoaderOps == {"Exec", "QueryRow", "QueryRows", "ExecuteJSONBQuery"}

\* C37: Exec, QueryRow, QueryRows and ExecuteJSONBQuery with a name the
\* store does not hold panic before any call on the database handle and
\* before the scanner is called; with a name it holds, the SQL they give the
\* database handle is the stored text of that name.
C37_LookupBeforeDatabase ==
    got.op \in LoaderOps
        => IF got.name \in DOMAIN store.queries
           THEN /\ ~got.panic
                /\ dbq.sql = <<store.queries[got.name]>>
           ELSE /\ got.panic
                /\ dbq.sql = <<>>
                /\ ~dbq.scanned

C37_Witness ==
    /\ got.op = "QueryRows"
    /\ got.name = <<"a">>
    /\ ~got.panic
    /\ store.queries[<<"a">>] = <<"s2">>
    /\ dbq = [sql |-> <<(<<"s2">>)>>, scanned |-> TRUE, err |-> FALSE]

====
